---- MODULE Spec2Model ----
(***************************************************************************)
(* Model of devopsworkload.py: the synchronisation of work items from the  *)
(* remote tracking service into the local sqlite table work_items, and the *)
(* part of the dashboard script that decides what the page shows.          *)
(*                                                                         *)
(* A data frame is a sequence of rows, a row is a record [Id, Title]       *)
(* (Title stands for the seven non-key columns, which the code always      *)
(* moves together), and the table is a set of rows.  Every HTTP request is *)
(* one step, so the remote service may change between two requests.        *)
(***************************************************************************)
EXTENDS Integers, Sequences, FiniteSets, TLC

MaxId == 2
MaxTitle == 2
MaxList == 2

Ids == 1..MaxId
Titles == 1..MaxTitle
Rows == [Id : Ids, Title : Titles]

RECURSIVE SeqsUpTo(_)
SeqsUpTo(n) ==
  IF n = 0 THEN {<<>>}
  ELSE LET shorter == SeqsUpTo(n - 1)
       IN  shorter \cup {Append(s, x) : s \in {t \in shorter : Len(t) = n - 1}, x \in Ids}

Listings == SeqsUpTo(MaxList)

SetOf(s) == {s[k] : k \in DOMAIN s}
IdsOf(rows) == {r.Id : r \in rows}
FrameIds(df) == {df[k].Id : k \in DOMAIN df}

\* A table with Id INTEGER PRIMARY KEY holds at most one row per Id.
Tables == {t \in SUBSET Rows : \A r1, r2 \in t : r1.Id = r2.Id => r1 = r2}

VARIABLES
  remoteIds,       \* the identifiers the WIQL query returns now, in order
  remoteTitle,     \* the fields the service holds now for each identifier
  cache,           \* the rows of table work_items
  pc,              \* position of the script
  all_ids,         \* get_updated_work_items: all_ids
  new_ids,         \* get_updated_work_items: new_ids
  i,               \* position of the detail loop in new_ids
  new_data,        \* rows collected by the detail loop
  data,            \* the frame the script holds at line 324
  errorShown,      \* st.error of the listing call was raised in this run
  listing,         \* outcome of the listing call of this run
  path,            \* the return statement this run left through
  cache0,          \* the table when this run began
  deleted,         \* identifiers deleted by this run
  attempted,       \* identifiers whose detail was requested in this run
  okIds,           \* identifiers with a successful detail request in this run
  lastFetched,     \* title of the latest successful detail request, per id
  wrote,           \* identifiers of the rows written by this run
  failedPrev,      \* identifiers skipped by the latest detail loop
  runsSinceChange  \* reconciliations begun since the remote last changed

vars == <<remoteIds, remoteTitle, cache, pc, all_ids, new_ids, i, new_data,
          data, errorShown, listing, path, cache0, deleted, attempted,
          okIds, lastFetched, wrote, failedPrev, runsSinceChange>>

----------------------------------------------------------------------------
\* Local cache (sqlite)

RECURSIVE SortById(_)
SortById(rows) ==
  IF rows = {} THEN <<>>
  ELSE LET r == CHOOSE x \in rows : \A y \in rows : x.Id <= y.Id
       IN  <<r>> \o SortById(rows \ {r})

\* SELECT * FROM work_items: rows in rowid (= Id) order
load_data_from_db(table) == SortById(table)

load_ids_from_db(table) == IdsOf(table)

delete_ids_from_db(table, ids_to_delete) ==
  {r \in table : r.Id \notin ids_to_delete}

\* one INSERT OR REPLACE
InsertOrReplace(table, row) == {r \in table : r.Id # row.Id} \cup {row}

RECURSIVE save_data_to_db(_, _)
save_data_to_db(df, table) ==
  IF df = <<>> THEN table
  ELSE save_data_to_db(Tail(df), InsertOrReplace(table, Head(df)))

----------------------------------------------------------------------------
\* Remote source

get_work_item_ids_from_devops(ok) == IF ok THEN remoteIds ELSE <<>>

\* variant: a failed request leaves a row without fields behind
FetchRow_placeholder(ok, id) ==
  IF ok THEN <<[Id |-> id, Title |-> remoteTitle[id]]>>
  ELSE <<[Id |-> id, Title |-> 0]>>

\* what one pass of the detail loop appends to work_items_data
FetchRow(ok, id) ==
  IF ok THEN <<[Id |-> id, Title |-> remoteTitle[id]]>> ELSE <<>>

\* variant: the try block around the loop instead of inside it
NextIndex_abort(ok, k) == IF ok THEN k + 1 ELSE Len(new_ids) + 1

\* the loop goes on to the next identifier whether the request failed or not
NextIndex(ok, k) == k + 1

----------------------------------------------------------------------------
\* Sync reconciler

\* variant: the guard of line 165 missing
EarlyReturn_never(all) == FALSE

\* line 165: if not all_ids
EarlyReturn(all) == all = <<>>

\* variant: the operands of the set difference swapped
IdsToDelete_swapped(existing, all) == SetOf(all) \ existing

\* line 170
IdsToDelete(existing, all) == existing \ SetOf(all)

\* variant: every listed identifier is downloaded again
NewIds_all(all, existing) == all

\* line 173
NewIds(all, existing) == SelectSeq(all, LAMBDA wid : wid \notin existing)

\* DataFrame.drop_duplicates(subset=["Id"]), keep="first"
RECURSIVE DropDuplicates(_)
DropDuplicates(df) ==
  IF df = <<>> THEN <<>>
  ELSE LET front == DropDuplicates(SubSeq(df, 1, Len(df) - 1))
           last  == df[Len(df)]
       IN  IF last.Id \in FrameIds(front) THEN front ELSE Append(front, last)

Combine(old_data, fetched) == DropDuplicates(old_data \o fetched)

----------------------------------------------------------------------------
\* initialize_db keeps an existing work_items.db, so the script starts with
\* whatever table and remote data earlier sessions left.
Init ==
  /\ remoteIds \in Listings
  /\ remoteTitle \in [Ids -> Titles]
  /\ cache \in Tables
  /\ pc = "idle"
  /\ all_ids = <<>>
  /\ new_ids = <<>>
  /\ i = 1
  /\ new_data = <<>>
  /\ data = <<>>
  /\ errorShown = FALSE
  /\ listing = "none"
  /\ path = "none"
  /\ cache0 = cache
  /\ deleted = {}
  /\ attempted = {}
  /\ okIds = {}
  /\ lastFetched = [id \in Ids |-> 0]
  /\ wrote = {}
  /\ failedPrev = {}
  /\ runsSinceChange = 0

\* lines 314-322: the script runs from the top on every interaction
AppStart(refresh) ==
  /\ pc = "idle"
  /\ cache0' = cache
  /\ all_ids' = <<>>
  /\ new_ids' = <<>>
  /\ i' = 1
  /\ new_data' = <<>>
  /\ errorShown' = FALSE
  /\ listing' = "none"
  /\ deleted' = {}
  /\ attempted' = {}
  /\ okIds' = {}
  /\ lastFetched' = [id \in Ids |-> 0]
  /\ wrote' = {}
  /\ IF refresh \/ load_data_from_db(cache) = <<>>
     THEN /\ pc' = "list"
          /\ path' = "none"
          /\ data' = <<>>
     ELSE /\ pc' = "render"
          /\ path' = "cached"
          /\ data' = load_data_from_db(cache)
  /\ UNCHANGED <<remoteIds, remoteTitle, cache, failedPrev, runsSinceChange>>

\* lines 164-181: the listing request, the deletions and the choice of new_ids
ListIds(ok) ==
  /\ pc = "list"
  /\ LET all      == get_work_item_ids_from_devops(ok)
         existing == load_ids_from_db(cache)
         del      == IdsToDelete(existing, all)
         fresh    == NewIds(all, existing)
     IN  /\ all_ids' = all
         /\ listing' = IF ok THEN "ok" ELSE "fail"
         /\ errorShown' = ~ok
         /\ runsSinceChange' = IF runsSinceChange < 2 THEN runsSinceChange + 1 ELSE 2
         /\ IF EarlyReturn(all)
            THEN /\ data' = <<>>
                 /\ path' = IF ok THEN "emptylist" ELSE "listfail"
                 /\ pc' = "render"
                 /\ UNCHANGED <<cache, deleted, new_ids>>
            ELSE /\ cache' = delete_ids_from_db(cache, del)
                 /\ deleted' = del
                 /\ new_ids' = fresh
                 /\ IF fresh = <<>>
                    THEN /\ data' = load_data_from_db(cache')
                         /\ path' = "nothingnew"
                         /\ pc' = "render"
                    ELSE /\ data' = <<>>
                         /\ path' = "none"
                         /\ pc' = "fetch"
  /\ UNCHANGED <<remoteIds, remoteTitle, i, new_data, cache0, attempted,
                 okIds, lastFetched, wrote, failedPrev>>

\* lines 140-159: one pass of the detail loop
FetchOne(ok) ==
  /\ pc = "fetch"
  /\ i <= Len(new_ids)
  /\ LET id == new_ids[i]
     IN  /\ new_data' = new_data \o FetchRow(ok, id)
         /\ attempted' = attempted \cup {id}
         /\ okIds' = IF ok THEN okIds \cup {id} ELSE okIds
         /\ lastFetched' = IF ok THEN [lastFetched EXCEPT ![id] = remoteTitle[id]]
                           ELSE lastFetched
  /\ i' = NextIndex(ok, i)
  /\ pc' = IF i' > Len(new_ids) THEN "merge" ELSE "fetch"
  /\ UNCHANGED <<remoteIds, remoteTitle, cache, all_ids, new_ids, data,
                 errorShown, listing, path, cache0, deleted, wrote, failedPrev,
                 runsSinceChange>>

\* lines 185-194
Merge ==
  /\ pc = "merge"
  /\ failedPrev' = attempted \ okIds
  /\ IF new_data = <<>>
     THEN /\ data' = load_data_from_db(cache)
          /\ path' = "allfailed"
          /\ UNCHANGED <<cache, wrote>>
     ELSE LET old_data      == load_data_from_db(cache)
              combined_data == Combine(old_data, new_data)
          IN  /\ cache' = save_data_to_db(combined_data, cache)
              /\ wrote' = FrameIds(combined_data)
              /\ data' = combined_data
              /\ path' = "merged"
  /\ pc' = "render"
  /\ UNCHANGED <<remoteIds, remoteTitle, all_ids, new_ids, i, new_data,
                 errorShown, listing, cache0, deleted, attempted, okIds,
                 lastFetched, runsSinceChange>>

\* lines 324-345: what the page shows for the frame the script holds
Shown(df) == IF df = <<>> THEN "nodata" ELSE "tables"

\* lines 324-345: the page is drawn and the script ends; its locals are gone
Render ==
  /\ pc = "render"
  /\ pc' = "idle"
  /\ all_ids' = <<>>
  /\ new_ids' = <<>>
  /\ i' = 1
  /\ new_data' = <<>>
  /\ data' = <<>>
  /\ errorShown' = FALSE
  /\ listing' = "none"
  /\ path' = "none"
  /\ cache0' = cache
  /\ deleted' = {}
  /\ attempted' = {}
  /\ okIds' = {}
  /\ lastFetched' = [id \in Ids |-> 0]
  /\ wrote' = {}
  /\ UNCHANGED <<remoteIds, remoteTitle, cache, failedPrev, runsSinceChange>>

RemoveAt(s, k) == SubSeq(s, 1, k - 1) \o SubSeq(s, k + 1, Len(s))

\* The remote service is edited by its users at any time.  A run reads the
\* listing once (line 123) and the fields of a work item once per detail
\* request (line 143), so an edit is placed at the next point where the
\* script can observe it: the listing changes between runs, the fields
\* between runs and, for a work item still to be requested, between two
\* detail requests.
RemoteChange ==
  /\ \/ /\ pc = "idle"
        /\ \/ \E id \in Ids : Len(remoteIds) < MaxList /\ remoteIds' = Append(remoteIds, id)
           \/ \E k \in DOMAIN remoteIds : remoteIds' = RemoveAt(remoteIds, k)
        /\ UNCHANGED remoteTitle
     \/ /\ pc \in {"idle", "fetch"}
        /\ \E id \in Ids, t \in Titles :
             /\ pc = "fetch" => \E k \in i..Len(new_ids) : new_ids[k] = id
             /\ t # remoteTitle[id]
             /\ remoteTitle' = [remoteTitle EXCEPT ![id] = t]
        /\ UNCHANGED remoteIds
  /\ runsSinceChange' = 0
  /\ UNCHANGED <<cache, pc, all_ids, new_ids, i, new_data, data,
                 errorShown, listing, path, cache0, deleted, attempted, okIds,
                 lastFetched, wrote, failedPrev>>

Next ==
  \/ \E refresh \in BOOLEAN : AppStart(refresh)
  \/ \E ok \in BOOLEAN : ListIds(ok)
  \/ \E ok \in BOOLEAN : FetchOne(ok)
  \/ Merge
  \/ Render
  \/ RemoteChange

Spec == Init /\ [][Next]_vars

TypeOK ==
  /\ remoteIds \in Listings
  /\ remoteTitle \in [Ids -> Titles]
  /\ cache \in Tables
  /\ pc \in {"idle", "list", "fetch", "merge", "render"}

----------------------------------------------------------------------------
\* Properties

Synced == path \in {"nothingnew", "allfailed", "merged"}
Skipped == attempted \ okIds
RowsOf(df) == {df[k] : k \in DOMAIN df}
RowsFor(id) == {r \in cache : r.Id = id}

\* C1 (as stated): after a run whose listing call succeeded, the identifiers
\* in the cache are exactly the listed identifiers R.
C1_KeysEqualRemote ==
  (pc = "render" /\ listing = "ok") => IdsOf(cache) = SetOf(all_ids)

\* C1 (amended): after a run whose listing call returned at least one
\* identifier, the identifiers in the cache are the listed identifiers R
\* without those whose detail requests all failed in that run.
C1_KeysEqualRemoteMinusSkipped ==
  (pc = "render" /\ Synced) => IdsOf(cache) = SetOf(all_ids) \ Skipped

C1_Witness ==
  /\ pc = "render"
  /\ path = "merged"
  /\ deleted # {}
  /\ okIds # {}
  /\ IdsOf(cache) = SetOf(all_ids)

\* C2: when the listing call fails the run reports an error, deletes nothing,
\* requests and writes nothing, and the cache is as it was when the run began.
C2_ListingFailureLeavesCache ==
  (listing = "fail") =>
    /\ errorShown
    /\ deleted = {}
    /\ attempted = {}
    /\ wrote = {}
    /\ cache = cache0

C2_Witness ==
  /\ pc = "render"
  /\ listing = "fail"
  /\ cache # {}
  /\ remoteIds # <<>>
  /\ IdsOf(cache) # SetOf(remoteIds)

\* C3: when the detail loop has run, every identifier of new_ids was
\* requested (a failure does not end the loop), every identifier with a
\* successful request is in the cache and every identifier whose requests
\* failed is not.
C3_PartialFailure ==
  (pc = "render" /\ path \in {"merged", "allfailed"}) =>
    /\ attempted = SetOf(new_ids)
    /\ okIds \subseteq IdsOf(cache)
    /\ Skipped \cap IdsOf(cache) = {}

C3_Witness ==
  /\ pc = "render"
  /\ path = "merged"
  /\ okIds # {}
  /\ Skipped # {}

\* C4 (as stated): an identifier that was in the cache when the run began and
\* is still listed has, after a run during which the remote did not change,
\* exactly one row in the cache, and that row carries the remote's title.
C4_CachedRowCarriesRemoteTitle ==
  (pc = "render" /\ Synced /\ runsSinceChange >= 1) =>
    \A id \in IdsOf(cache0) \cap SetOf(all_ids) :
      RowsFor(id) = {[Id |-> id, Title |-> remoteTitle[id]]}

\* C5 (as stated): the second of two runs of get_updated_work_items with no
\* remote change since before the first leaves the cache as the first run
\* left it and deletes, requests and writes nothing.
C5_SecondRunNoOp ==
  (pc = "render" /\ path # "cached" /\ runsSinceChange = 2) =>
    /\ cache = cache0
    /\ deleted = {}
    /\ attempted = {}
    /\ wrote = {}

\* C5 (amended): the same, provided the first run left the cache with exactly
\* the remote identifiers (its listing succeeded and no identifier was
\* skipped by its detail loop).
C5_SecondRunNoOpAfterCompleteRun ==
  (/\ pc = "render"
   /\ path # "cached"
   /\ runsSinceChange = 2
   /\ IdsOf(cache0) = SetOf(remoteIds)) =>
    /\ cache = cache0
    /\ deleted = {}
    /\ attempted = {}
    /\ wrote = {}

C5_Witness ==
  /\ pc = "render"
  /\ path = "nothingnew"
  /\ runsSinceChange = 2
  /\ IdsOf(cache0) = SetOf(remoteIds)
  /\ Cardinality(cache) = MaxId

\* C6 (as stated): when the listing succeeded and every listed identifier
\* was already cached, the run requests no detail, writes no row and returns
\* the contents of the cache.
C6_NothingToFetchReturnsCache ==
  (pc = "render" /\ listing = "ok" /\ SetOf(all_ids) \ IdsOf(cache0) = {}) =>
    /\ attempted = {}
    /\ wrote = {}
    /\ data = load_data_from_db(cache)

\* C7: an identifier skipped by a detail loop is not in the cache; when it is
\* listed again it is in new_ids again and is requested again; and an
\* identifier with a successful request is in the cache when the run returns.
C7_SkippedIsRetried ==
  /\ failedPrev \cap IdsOf(cache) = {}
  /\ (pc \in {"fetch", "merge"} \/ (pc = "render" /\ Synced /\ path # "nothingnew")) =>
       failedPrev \cap SetOf(all_ids) \subseteq SetOf(new_ids)
  /\ (pc = "render" /\ path = "nothingnew") => failedPrev \cap SetOf(all_ids) = {}
  /\ (pc = "merge") => failedPrev \cap SetOf(all_ids) \subseteq attempted
  /\ (pc = "render" /\ path = "merged") => okIds \subseteq IdsOf(cache)

C7_Witness ==
  /\ pc = "merge"
  /\ \E id \in failedPrev : id \in okIds

\* C8: when the listing succeeds with no identifiers the run deletes nothing,
\* requests and writes nothing, and the cache is as it was when the run began.
C8_EmptyListingIsNothingToSync ==
  (listing = "ok" /\ all_ids = <<>>) =>
    /\ deleted = {}
    /\ attempted = {}
    /\ wrote = {}
    /\ cache = cache0

C8_Witness ==
  /\ pc = "render"
  /\ listing = "ok"
  /\ all_ids = <<>>
  /\ Cardinality(cache) = MaxId

\* C9 (as stated): after a merge, the row kept for an identifier that was
\* downloaded in this run is the one of its latest successful request.
C9_NewestFetchKept ==
  (pc = "render" /\ path = "merged") =>
    \A id \in okIds : RowsFor(id) = {[Id |-> id, Title |-> lastFetched[id]]}

\* C10 (as stated): whatever return statement get_updated_work_items leaves
\* through, the frame it returns holds the rows of the cache, and the page
\* says "No data available." only when the cache is empty.
C10_ReturnedEqualsCache ==
  (pc = "render" /\ path # "cached") =>
    /\ RowsOf(data) = cache
    /\ Shown(data) = "nodata" => cache = {}
====
